---- MODULE Spec2Model ----
(***************************************************************************)
(* One zoom binding (zoomImage) of the image magnifier: the overlay image, *)
(* the geometry snapshot kept by createZoom, the clicked / touched flags,  *)
(* the listeners the binding holds on its source and on the document, and  *)
(* the fade animations in flight on the overlay.  Every DOM event is one    *)
(* action: the whole dispatch of that event, every listener it reaches      *)
(* included.                                                                *)
(***************************************************************************)
EXTENDS Integers, Sequences, FiniteSets, TLC

VARIABLES
    options,      \* the options as passed to zoomImage
    doc,          \* the document: the source's first img, the rendering mode
    settings,     \* the merged options of the binding, url resolved
    loadState,    \* "loading", "loaded" or "failed": the overlay image's load
    layout,       \* the page layout current now (index into Layouts)
    style,        \* inline position / overflow of the elements "source", "container"
    origStyle,    \* history: style as it was when the binding was made
    zoom,         \* createZoom's closure: the geometry stored by init()
    img,          \* the overlay image: left, top, display, inTarget
    fades,        \* animations started by fadeTo and not finished, oldest first
    fadeLog,      \* history: the opacities of the last two fadeTo calls
    clicked,      \* zoomImage's clicked flag
    touched,      \* zoomImage's touched flag
    srcListeners, \* event names the binding listens to on the source
    docMove,      \* zoom.move is attached to the document's mousemove
    docMouseup,   \* one-shot mouseup handlers pending on the document
    docClick,     \* one-shot click handlers pending on the document
    destroyArmed, \* the one-shot 'destroy' listener is still on the source
    callbacks,    \* history: the calls of settings.callback
    nClicks,      \* history: clicks dispatched on the source since load
    lastHover,    \* history: the last of mouseover / mouseleave, or "none"
    ev            \* history: the last event dispatched and the calls it made

vars == <<options, doc, settings, loadState, layout, style, origStyle, zoom, img,
          fades, fadeLog, clicked, touched, srcListeners, docMove, docMouseup,
          docClick, destroyArmed, callbacks, nClicks, lastHover, ev>>

----------------------------------------------------------------------------
(* Bounds of the model *)

\* animations in flight on the overlay at one time
MaxFades == 2
\* clicks dispatched on the source
MaxClicks == 3
\* one-shot mouseup handlers pending on the document
MaxMouseup == 2

----------------------------------------------------------------------------
(* Numbers: pixel values are rationals n/d, kept in lowest terms with d > 0 *)

Abs(x) == IF x < 0 THEN -x ELSE x

RECURSIVE GCD(_, _)
GCD(a, b) == IF b = 0 THEN a ELSE GCD(b, a % b)

\* the quotient n / d of two integers, d > 0
Rat(n, d) == LET g == GCD(Abs(n), d) IN [n |-> n \div g, d |-> d \div g]

\* the product of the integer k and the rational r
Times(k, r) == Rat(k * r.n, r.d)

Neg(r) == [n |-> -r.n, d |-> r.d]

Max(a, b) == IF a > b THEN a ELSE b
Min(a, b) == IF a < b THEN a ELSE b

----------------------------------------------------------------------------
(* The page *)

\* the trigger modes of ZoomOptions.on
SupportedModes == {"mouseover", "grab", "click", "toggle"}

\* the values of on the model draws: the supported ones, "toggle-drag", which has
\* a branch of its own, and "none", a string that matches no branch
Modes == SupportedModes \cup {"toggle-drag", "none"}

\* the mouse buttons of a mousedown: 0 is the primary one
Buttons == {0, 2}

\* layouts the page can be in: the source's box (sw, sh) and page offset (left,
\* top), and the box of a separate target container (cw, ch); every box has a
\* positive size
Layouts ==
    <<[sw |-> 100, sh |-> 100, left |-> 10, top |-> 10, cw |-> 100, ch |-> 100],
      [sw |-> 30, sh |-> 80, left |-> 40, top |-> 20, cw |-> 200, ch |-> 100]>>

\* the overlay image's size once loaded
NaturalSize == [width |-> 400, height |-> 400]

\* page positions of a pointer or touch
Pointers == {[pageX |-> 60, pageY |-> 60], [pageX |-> 0, pageY |-> 0],
             [pageX |-> 200, pageY |-> 150]}

NoPointer == [pageX |-> -1, pageY |-> -1]

\* the pointer is over the source's box in layout l
InSource(p, l) ==
    /\ Layouts[l].left <= p.pageX /\ p.pageX <= Layouts[l].left + Layouts[l].sw
    /\ Layouts[l].top <= p.pageY /\ p.pageY <= Layouts[l].top + Layouts[l].sh

\* inline styles a target can carry before the binding touches it
TargetStyles == {[position |-> "", overflow |-> ""],
                 [position |-> "absolute", overflow |-> "auto"],
                 [position |-> "sticky", overflow |-> "scroll"]}

\* the element the overlay is displayed in: settings.target || source
Target(s) == IF s.sameTarget THEN "source" ELSE "container"

\* getComputedStyle(el).position, with no stylesheet rule on the element
ComputedPosition(st) == IF st.position = "" THEN "static" ELSE st.position

OffsetWidth(el, l) == IF el = "source" THEN Layouts[l].sw ELSE Layouts[l].cw
OffsetHeight(el, l) == IF el = "source" THEN Layouts[l].sh ELSE Layouts[l].ch

\* getOffset(source): the source's page offset
getOffset(l) == [top |-> Layouts[l].top, left |-> Layouts[l].left]

----------------------------------------------------------------------------
(* The binding's mutable state as one value, so that a handler is the       *)
(* composition of the functions it calls                                     *)

Cur == [style |-> style, zoom |-> zoom, img |-> img, fades |-> fades,
        fadeLog |-> fadeLog, clicked |-> clicked, touched |-> touched,
        srcListeners |-> srcListeners, docMove |-> docMove,
        docMouseup |-> docMouseup, docClick |-> docClick,
        callbacks |-> callbacks, calls |-> <<>>]

\* an event: its name, the page position and the mouse button it carries
NoButton == "none"

Event(name, p, button) == [name |-> name, ptr |-> p, button |-> button]

\* the handlers the event e reached left the binding as b
Commit(b, e) ==
    /\ style' = b.style
    /\ zoom' = b.zoom
    /\ img' = b.img
    /\ fades' = b.fades
    /\ fadeLog' = b.fadeLog
    /\ clicked' = b.clicked
    /\ touched' = b.touched
    /\ srcListeners' = b.srcListeners
    /\ docMove' = b.docMove
    /\ docMouseup' = b.docMouseup
    /\ docClick' = b.docClick
    /\ callbacks' = b.callbacks
    /\ ev' = [name |-> e.name, ptr |-> e.ptr, button |-> e.button,
              calls |-> b.calls]

Called(b, f) == [b EXCEPT !.calls = Append(@, f)]

\* createZoom's variables before the first init(): declared, not assigned
Unset == [inited |-> FALSE, targetWidth |-> 0, targetHeight |-> 0,
          sourceWidth |-> 0, sourceHeight |-> 0,
          xRatio |-> Rat(0, 1), yRatio |-> Rat(0, 1),
          offset |-> [top |-> 0, left |-> 0]]

\* the overlay image as document.createElement('img') leaves it
\* (width, height: the natural size, 0 until loaded; styleWidth, styleHeight:
\* the inline size, <<>> when none is set)
NewImg == [left |-> Rat(0, 1), top |-> Rat(0, 1), display |-> "",
           inTarget |-> FALSE, width |-> 0, height |-> 0,
           styleWidth |-> <<>>, styleHeight |-> <<>>, src |-> ""]

----------------------------------------------------------------------------
(* fadeTo *)

\* the last two requested opacities, oldest first
Logged(log, opacity) ==
    IF Len(log) < 2 THEN Append(log, opacity) ELSE <<log[2], opacity>>

\* fadeTo(img, duration, opacity, callback): show the element when it is hidden,
\* then start an animation towards opacity whose onfinish is still to run
fadeTo(b, opacity, callback) ==
    [b EXCEPT !.img.display = IF @ = "none" THEN "" ELSE @,
              !.fades = Append(@, [opacity |-> opacity, callback |-> callback]),
              !.fadeLog = Logged(@, opacity)]

\* the onfinish of the animation a: hide the element after a fade to 0
onfinish(i, a) == [i EXCEPT !.display = IF a.opacity = 0 THEN "none" ELSE @]

\* the overlay's opacity: the style set by createZoom until a fade is requested,
\* then what the animation created last holds (fill: both, composited last)
Opacity == IF fadeLog = <<>> THEN 0 ELSE fadeLog[Len(fadeLog)]

----------------------------------------------------------------------------
(* createZoom: setup, init and move *)

\* img.style.width = n, n a number: the string of n is a <number>, which is a
\* width only when it is 0 or when the document is in quirks mode (unitless
\* length quirk); otherwise the assignment is dropped and the old value stays
StyleLength(old, n, d) == IF n = 0 \/ d.quirks THEN <<n>> ELSE old

\* img.width: the rendered width while the image has a box, the natural width
\* while it has none (display none, or not in the document)
width(i) ==
    IF i.inTarget /\ i.display # "none" /\ i.styleWidth # <<>>
    THEN i.styleWidth[1] ELSE i.width

height(i) ==
    IF i.inTarget /\ i.display # "none" /\ i.styleHeight # <<>>
    THEN i.styleHeight[1] ELSE i.height

\* the setup run by createZoom at load: the target gets a positioning context and
\* clips the overlay, the overlay is sized to img.width * magnify and appended
createZoom(b, s, d) ==
    LET t == Target(s)
        position == ComputedPosition(b.style[t])
        loaded == [b.img EXCEPT !.width = NaturalSize.width,
                                !.height = NaturalSize.height,
                                !.styleWidth = <<>>, !.styleHeight = <<>>]
    IN [b EXCEPT !.style[t].position =
                     IF position \in {"absolute", "fixed"} THEN position ELSE "relative",
                 !.style[t].overflow = "hidden",
                 !.img = [loaded EXCEPT
                            !.left = Rat(0, 1), !.top = Rat(0, 1),
                            !.styleWidth = StyleLength(<<>>, width(loaded) * s.magnify, d),
                            !.styleHeight = StyleLength(<<>>, height(loaded) * s.magnify, d),
                            !.inTarget = TRUE]]

\* zoom.init() in layout l
init(b, s, l) ==
    LET targetWidth == OffsetWidth(Target(s), l)
        targetHeight == OffsetHeight(Target(s), l)
        sourceWidth == IF Target(s) = "source" THEN targetWidth
                       ELSE OffsetWidth("source", l)
        sourceHeight == IF Target(s) = "source" THEN targetHeight
                        ELSE OffsetHeight("source", l)
    IN [b EXCEPT !.zoom = [inited |-> TRUE,
                           targetWidth |-> targetWidth,
                           targetHeight |-> targetHeight,
                           sourceWidth |-> sourceWidth,
                           sourceHeight |-> sourceHeight,
                           xRatio |-> Rat(width(b.img) - targetWidth, sourceWidth),
                           yRatio |-> Rat(height(b.img) - targetHeight, sourceHeight),
                           offset |-> getOffset(l)]]

\* Pan without the clamp to [0, size]
Pan_unclamped(page, off, size, ratio) == Times(page - off, Neg(ratio))

\* Pan without Math.min: clamped below only
Pan_noMin(page, off, size, ratio) == Times(Max(page - off, 0), Neg(ratio))

\* one axis of move: the pointer's coordinate relative to the stored offset,
\* clamped to the stored source size, times the negated ratio
Pan(page, off, size, ratio) == Times(Max(Min(page - off, size), 0), Neg(ratio))

\* zoom.move(pointer); before the first init() offset is undefined and reading
\* offset.left throws, which leaves the overlay where it was
move(b, p) ==
    IF ~b.zoom.inited THEN b
    ELSE [b EXCEPT
            !.img.left = Pan(p.pageX, b.zoom.offset.left, b.zoom.sourceWidth,
                             b.zoom.xRatio),
            !.img.top = Pan(p.pageY, b.zoom.offset.top, b.zoom.sourceHeight,
                            b.zoom.yRatio)]

----------------------------------------------------------------------------
(* start and stop *)

start(b, s, l, p) ==
    Called(fadeTo(move(init(b, s, l), p), 1, "onZoomIn"), "start")

stop(b) == Called(fadeTo(b, 0, "onZoomOut"), "stop")

\* room for k more animations in flight
Room(k) == Len(fades) + k <= MaxFades

----------------------------------------------------------------------------
(* The listeners of the binding *)

\* mousedown without the test of the button
mousedown_anyButton(b, s, l, p, button) ==
    [start([b EXCEPT !.docMouseup = @ + 1], s, l, p) EXCEPT !.docMove = TRUE]

\* grab: the mousedown listener on the source; only the primary button acts
mousedown(b, s, l, p, button) ==
    IF button = 0
    THEN LET armed == [b EXCEPT !.docMouseup = @ + 1]
         IN [start(armed, s, l, p) EXCEPT !.docMove = TRUE]
    ELSE b

\* grab: one one-shot mouseup handler on the document
mouseup(b) == [stop(b) EXCEPT !.docMove = FALSE]

\* every one-shot mouseup handler pending on the document runs, then is gone
RECURSIVE mouseupAll(_, _)
mouseupAll(b, k) ==
    IF k = 0 THEN [b EXCEPT !.docMouseup = 0] ELSE mouseupAll(mouseup(b), k - 1)

\* click: the one-shot click handler on the document
documentClick(b) ==
    [stop(Called(b, "documentClick")) EXCEPT !.clicked = FALSE, !.docMove = FALSE]

RECURSIVE documentClickAll(_, _)
documentClickAll(b, k) ==
    IF k = 0 THEN [b EXCEPT !.docClick = 0]
    ELSE documentClickAll(documentClick(b), k - 1)

\* click without stopPropagation: the arming click goes on to the document
click_bubbling(b, s, l, p) ==
    IF b.clicked
    THEN [b |-> b, bubbles |-> TRUE]
    ELSE [b |-> [start([b EXCEPT !.clicked = TRUE], s, l, p)
                    EXCEPT !.docMove = TRUE, !.docClick = @ + 1],
          bubbles |-> TRUE]

\* click without the early return while clicked
click_noGuard(b, s, l, p) ==
    [b |-> [start([b EXCEPT !.clicked = TRUE], s, l, p)
               EXCEPT !.docMove = TRUE, !.docClick = @ + 1],
     bubbles |-> FALSE]

\* click: the click listener on the source; bubbles tells whether the event goes
\* on to the document (stopPropagation was not called)
click(b, s, l, p) ==
    IF b.clicked
    THEN [b |-> b, bubbles |-> TRUE]
    ELSE [b |-> [start([b EXCEPT !.clicked = TRUE], s, l, p)
                    EXCEPT !.docMove = TRUE, !.docClick = @ + 1],
          bubbles |-> FALSE]

\* toggle that leaves the document's mousemove tracker alone
toggle_noTracker(b, s, l, p) ==
    LET done == IF b.clicked THEN stop(b) ELSE start(b, s, l, p)
    IN [b |-> [done EXCEPT !.clicked = ~b.clicked], bubbles |-> TRUE]

\* toggle: the click listener on the source
toggle(b, s, l, p) ==
    LET done == IF b.clicked
                THEN [stop(b) EXCEPT !.docMove = FALSE]
                ELSE [start(b, s, l, p) EXCEPT !.docMove = TRUE]
    IN [b |-> [done EXCEPT !.clicked = ~b.clicked], bubbles |-> TRUE]

\* touchstart without the test of the mode
touchstart_anyMode(b, s, l, p) ==
    IF b.touched
    THEN stop([b EXCEPT !.touched = FALSE])
    ELSE start([b EXCEPT !.touched = TRUE], s, l, p)

\* touchmove without the test of touched and clicked
touchmove_unguarded(b, p) == Called(move(b, p), "move")

\* the touch fallback
touchstart(b, s, l, p) ==
    IF s.on \in {"click", "toggle"} THEN b
    ELSE IF b.touched
         THEN stop([b EXCEPT !.touched = FALSE])
         ELSE start([b EXCEPT !.touched = TRUE], s, l, p)

touchmove(b, p) ==
    IF ~b.touched /\ ~b.clicked THEN b ELSE Called(move(b, p), "move")

touchend(b) ==
    IF b.touched THEN stop([b EXCEPT !.touched = FALSE]) ELSE b

\* ModeListeners with the mouseover wiring as the fallback of every other mode
ModeListeners_hoverFallback(on) ==
    CASE on = "grab" -> {"mousedown"}
      [] on = "click" -> {"click"}
      [] on = "toggle" -> {"click"}
      [] OTHER -> {"mouseover", "mouseleave", "mousemove"}

\* the listeners the load handler attaches to the source for mode on
ModeListeners(on) ==
    CASE on = "grab" -> {"mousedown"}
      [] on = "click" -> {"click"}
      [] on = "toggle" -> {"click"}
      [] on = "mouseover" -> {"mouseover", "mouseleave", "mousemove"}
      [] OTHER -> {}

\* $ is declared nowhere in the repository: the "toggle-drag" branch throws a
\* ReferenceError at $(source), which ends the load listener there
Throws(on) == on = "toggle-drag"

TouchListeners(touch) ==
    IF touch THEN {"touchstart", "touchmove", "touchend"} ELSE {}

\* the load listener of the overlay image: setup, the mode's listeners, the
\* touch listeners, then the post-load callback with the overlay image
load(b, s, d) ==
    LET made == createZoom(b, s, d)
        wired == [made EXCEPT
                    !.srcListeners = ModeListeners(s.on) \cup TouchListeners(s.touch)]
    IN IF Throws(s.on) THEN made
       ELSE IF s.callback
            THEN [wired EXCEPT
                    !.callbacks = Append(@, [arg |-> "img",
                                             attached |-> wired.srcListeners])]
            ELSE wired

\* $source is declared nowhere in the repository: evaluating it throws
JQuerySourceDefined == FALSE

\* the teardown: position and overflow are read from the style of the event's
\* target (the source) as it is now; then $source.off throws a ReferenceError and
\* the assignments and the removal after it do not run
destroy(b, s) ==
    LET position == b.style["source"].position
        overflow == b.style["source"].overflow
    IN IF ~JQuerySourceDefined THEN b
       ELSE [b EXCEPT !.style[Target(s)].position = position,
                      !.style[Target(s)].overflow = overflow,
                      !.img.inTarget = FALSE]

----------------------------------------------------------------------------
(* zoomImage(source, options) up to its return *)

Plain == [position |-> "", overflow |-> ""]

\* the source has no descendant img
NoImg == [dataSrc |-> "", currentSrc |-> "", src |-> "", present |-> FALSE]

\* getAttribute('data-src') || currentSrc || src of the source's first img
ImgUrl(e) ==
    IF ~e.present THEN ""
    ELSE IF e.dataSrc # "" THEN e.dataSrc
    ELSE IF e.currentSrc # "" THEN e.currentSrc
    ELSE e.src

\* zoomImage with the mode and touch wiring outside the load listener
zoomImage_eager(o, d) ==
    LET url == IF o.url # "" THEN o.url ELSE ImgUrl(d.srcImg)
    IN [settings |-> [o EXCEPT !.url = url],
        bound |-> url # "",
        img |-> [NewImg EXCEPT !.src = url],
        srcListeners |-> IF o.touch THEN {"touchstart", "touchmove", "touchend"}
                         ELSE {"mousedown", "click", "mouseover"}]

\* zoomImage without the return on an empty url
zoomImage_noUrlTest(o, d) ==
    LET url == IF o.url # "" THEN o.url ELSE ImgUrl(d.srcImg)
    IN [settings |-> [o EXCEPT !.url = url],
        bound |-> TRUE,
        img |-> [NewImg EXCEPT !.src = url],
        srcListeners |-> {}]

\* zoomImage(source, o) in document d: the settings it merges, whether it went on
\* past the url test (bound), the overlay image and the listeners it leaves
zoomImage(o, d) ==
    LET url == IF o.url # "" THEN o.url ELSE ImgUrl(d.srcImg)
    IN [settings |-> [o EXCEPT !.url = url],
        bound |-> url # "",
        img |-> [NewImg EXCEPT !.src = url],
        srcListeners |-> {}]

\* the state zoomImage(source, o) leaves, the target carrying the inline style st
Bound(o, d, st) ==
    LET z == zoomImage(o, d)
    IN /\ options = o
       /\ doc = d
       /\ settings = z.settings
       /\ loadState = IF z.bound THEN "loading" ELSE "unbound"
       /\ layout = 1
       /\ style = [e \in {"source", "container"} |->
                      IF e = Target(o) THEN st ELSE Plain]
       /\ origStyle = style
       /\ zoom = Unset
       /\ img = z.img
       /\ fades = <<>>
       /\ fadeLog = <<>>
       /\ clicked = FALSE
       /\ touched = FALSE
       /\ srcListeners = z.srcListeners
       /\ docMove = FALSE
       /\ docMouseup = 0
       /\ docClick = 0
       /\ destroyArmed = z.bound
       /\ callbacks = <<>>
       /\ nClicks = 0
       /\ lastHover = "none"
       /\ ev = [name |-> "bind", ptr |-> NoPointer, button |-> NoButton,
                calls |-> <<>>]

\* a standards-mode document whose source has no img of its own
StandardsDoc == [srcImg |-> NoImg, quirks |-> FALSE]

\* every mode, with and without touch and a separate target, over each target
\* style; the url is given, magnify is the default, a callback is configured
Init ==
    \E o \in [url : {"big.jpg"}, on : Modes, touch : BOOLEAN,
              sameTarget : BOOLEAN, magnify : {1}, callback : {TRUE}],
       st \in TargetStyles :
        Bound(o, StandardsDoc, st)

----------------------------------------------------------------------------
(* Events *)

\* what an event leaves alone besides the binding's own state
Env == UNCHANGED <<options, doc, settings, loadState, layout, origStyle,
                   destroyArmed>>

\* the overlay image has loaded
Load ==
    /\ loadState = "loading"
    /\ loadState' = "loaded"
    /\ Commit(load(Cur, settings, doc), Event("load", NoPointer, NoButton))
    /\ UNCHANGED <<options, doc, settings, layout, origStyle, destroyArmed,
                   nClicks, lastHover>>

\* the overlay image failed to load: nothing listens to that
LoadError ==
    /\ loadState = "loading"
    /\ loadState' = "failed"
    /\ Commit(Cur, Event("error", NoPointer, NoButton))
    /\ UNCHANGED <<options, doc, settings, layout, origStyle, destroyArmed,
                   nClicks, lastHover>>

\* the page reflows: boxes and offsets change
Reflow ==
    /\ \E l \in 1..Len(Layouts) : l # layout /\ layout' = l
    /\ Commit(Cur, Event("reflow", NoPointer, NoButton))
    /\ UNCHANGED <<options, doc, settings, loadState, origStyle, destroyArmed,
                   nClicks, lastHover>>

\* the animation started first finishes first: all have settings.duration
FadeFinish ==
    /\ fades # <<>>
    /\ Commit(Called([Cur EXCEPT !.img = onfinish(@, Head(fades)),
                                 !.fades = Tail(@)], Head(fades).callback),
              Event("finish", NoPointer, NoButton))
    /\ Env /\ UNCHANGED <<nClicks, lastHover>>

MouseDown ==
    /\ "mousedown" \in srcListeners
    /\ \E p \in Pointers, button \in Buttons :
          /\ InSource(p, layout)
          /\ button = 0 => Room(1) /\ docMouseup < MaxMouseup
          /\ Commit(mousedown(Cur, settings, layout, p, button),
                    Event("mousedown", p, button))
    /\ Env /\ UNCHANGED <<nClicks, lastHover>>

\* a mouseup anywhere reaches the document
MouseUp ==
    /\ docMouseup > 0
    /\ Room(docMouseup)
    /\ Commit(mouseupAll(Cur, docMouseup), Event("mouseup", NoPointer, NoButton))
    /\ Env /\ UNCHANGED <<nClicks, lastHover>>

\* a click on the source: its listener runs, then the document's unless stopped
ClickSource ==
    /\ "click" \in srcListeners
    /\ nClicks < MaxClicks
    /\ \E p \in Pointers :
          /\ InSource(p, layout)
          /\ LET r == IF settings.on = "click"
                      THEN click(Cur, settings, layout, p)
                      ELSE toggle(Cur, settings, layout, p)
                 b == IF r.bubbles THEN documentClickAll(r.b, r.b.docClick) ELSE r.b
             IN /\ Len(b.fades) <= MaxFades
                /\ Commit(b, Event("click", p, NoButton))
    /\ nClicks' = nClicks + 1
    /\ Env /\ UNCHANGED lastHover

\* a click outside the source reaches the document only
ClickDocument ==
    /\ docClick > 0
    /\ Room(docClick)
    /\ Commit(documentClickAll(Cur, docClick),
              Event("documentclick", NoPointer, NoButton))
    /\ Env /\ UNCHANGED <<nClicks, lastHover>>

MouseOver ==
    /\ "mouseover" \in srcListeners
    /\ Room(1)
    /\ \E p \in Pointers :
          /\ InSource(p, layout)
          /\ Commit(start(Cur, settings, layout, p), Event("mouseover", p, NoButton))
    /\ lastHover' = "enter"
    /\ Env /\ UNCHANGED nClicks

MouseLeave ==
    /\ "mouseleave" \in srcListeners
    /\ Room(1)
    /\ Commit(stop(Cur), Event("mouseleave", NoPointer, NoButton))
    /\ lastHover' = "leave"
    /\ Env /\ UNCHANGED nClicks

\* a mousemove over the source reaches the source's listener and then the
\* document's; one elsewhere reaches the document's only
MouseMove ==
    /\ \E p \in Pointers :
          LET onSource == InSource(p, layout) /\ "mousemove" \in srcListeners
              b1 == IF onSource THEN Called(move(Cur, p), "move") ELSE Cur
              b2 == IF docMove THEN Called(move(b1, p), "move") ELSE b1
          IN /\ onSource \/ docMove
             /\ Commit(b2, Event("mousemove", p, NoButton))
    /\ Env /\ UNCHANGED <<nClicks, lastHover>>

TouchStart ==
    /\ "touchstart" \in srcListeners
    /\ \E p \in Pointers :
          /\ InSource(p, layout)
          /\ LET b == touchstart(Cur, settings, layout, p)
             IN /\ Len(b.fades) <= MaxFades
                /\ Commit(b, Event("touchstart", p, NoButton))
    /\ Env /\ UNCHANGED <<nClicks, lastHover>>

\* the finger may have left the source: the event still goes to the source
TouchMove ==
    /\ "touchmove" \in srcListeners
    /\ \E p \in Pointers : Commit(touchmove(Cur, p), Event("touchmove", p, NoButton))
    /\ Env /\ UNCHANGED <<nClicks, lastHover>>

TouchEnd ==
    /\ "touchend" \in srcListeners
    /\ LET b == touchend(Cur)
       IN /\ Len(b.fades) <= MaxFades
          /\ Commit(b, Event("touchend", NoPointer, NoButton))
    /\ Env /\ UNCHANGED <<nClicks, lastHover>>

\* the 'destroy' event on the source: its listener is a one-shot
Destroy ==
    /\ destroyArmed
    /\ destroyArmed' = FALSE
    /\ Commit(Called(destroy(Cur, settings), "destroy"),
              Event("destroy", NoPointer, NoButton))
    /\ UNCHANGED <<options, doc, settings, loadState, layout, origStyle,
                   nClicks, lastHover>>

Next ==
    \/ Load
    \/ LoadError
    \/ Reflow
    \/ FadeFinish
    \/ MouseDown
    \/ MouseUp
    \/ ClickSource
    \/ ClickDocument
    \/ MouseOver
    \/ MouseLeave
    \/ MouseMove
    \/ TouchStart
    \/ TouchMove
    \/ TouchEnd
    \/ Destroy

Spec == Init /\ [][Next]_vars

----------------------------------------------------------------------------
(* Geometry: a grab binding under each magnify and rendering mode *)

InitGeom ==
    \E o \in [url : {"big.jpg"}, on : {"grab"}, touch : {FALSE},
              sameTarget : BOOLEAN, magnify : {1, 2}, callback : {FALSE}],
       d \in [srcImg : {NoImg}, quirks : BOOLEAN] :
        Bound(o, d, Plain)

NextGeom ==
    \/ Load
    \/ Reflow
    \/ FadeFinish
    \/ MouseDown
    \/ MouseUp
    \/ MouseMove

SpecGeom == InitGeom /\ [][NextGeom]_vars

----------------------------------------------------------------------------
(* Binding: every way the url resolves, with and without a callback, in one  *)
(* layout                                                                    *)

\* the source's first img: none, or one with some of data-src, currentSrc, src
SrcImgs ==
    {NoImg,
     [dataSrc |-> "", currentSrc |-> "", src |-> "", present |-> TRUE],
     [dataSrc |-> "", currentSrc |-> "", src |-> "src.jpg", present |-> TRUE],
     [dataSrc |-> "", currentSrc |-> "cur.jpg", src |-> "src.jpg", present |-> TRUE],
     [dataSrc |-> "data.jpg", currentSrc |-> "cur.jpg", src |-> "src.jpg",
      present |-> TRUE]}

InitBind ==
    \E o \in [url : {"", "big.jpg"}, on : Modes, touch : BOOLEAN,
              sameTarget : {TRUE}, magnify : {1}, callback : BOOLEAN],
       d \in [srcImg : SrcImgs, quirks : {FALSE}] :
        Bound(o, d, Plain)

NextBind ==
    \/ Load
    \/ LoadError
    \/ FadeFinish
    \/ MouseDown
    \/ MouseUp
    \/ ClickSource
    \/ ClickDocument
    \/ MouseOver
    \/ MouseLeave
    \/ MouseMove
    \/ TouchStart
    \/ TouchMove
    \/ TouchEnd
    \/ Destroy

SpecBind == InitBind /\ [][NextBind]_vars

----------------------------------------------------------------------------
(* Properties *)

Has(calls, f) == \E i \in 1..Len(calls) : calls[i] = f

Clamp(x, lo, hi) == IF x < lo THEN lo ELSE IF x > hi THEN hi ELSE x

ExamplePointer == [pageX |-> 60, pageY |-> 60]

\* C1: after init(), move(pointer) puts the overlay at
\* left = -clamp(pageX - offset.left, 0, sourceWidth) * xRatio and
\* top = -clamp(pageY - offset.top, 0, sourceHeight) * yRatio, with the offset, size
\* and ratios init() stored; a start stores those of the layout current at the
\* event; and source 100x100 at (10,10), overlay 400x400, target 100x100, pointer
\* (60,60) gives (-150,-150)
C1_MoveMapsPointer ==
    (zoom.inited /\ (Has(ev.calls, "start") \/ Has(ev.calls, "move"))) =>
        /\ img.left = Neg(Times(Clamp(ev.ptr.pageX - zoom.offset.left, 0,
                                      zoom.sourceWidth), zoom.xRatio))
        /\ img.top = Neg(Times(Clamp(ev.ptr.pageY - zoom.offset.top, 0,
                                     zoom.sourceHeight), zoom.yRatio))
        /\ Has(ev.calls, "start") => zoom = init(Cur, settings, layout).zoom
        /\ ( /\ zoom.sourceWidth = 100 /\ zoom.sourceHeight = 100
             /\ zoom.offset = [top |-> 10, left |-> 10]
             /\ zoom.targetWidth = 100 /\ zoom.targetHeight = 100
             /\ img.width = 400 /\ img.height = 400
             /\ ev.ptr = ExamplePointer )
           => img.left = Rat(-150, 1) /\ img.top = Rat(-150, 1)

\* C1 witness: the example, reached by a start at (60,60)
C1_Witness ==
    /\ Has(ev.calls, "start")
    /\ ev.ptr = ExamplePointer
    /\ zoom.sourceWidth = 100 /\ zoom.offset = [top |-> 10, left |-> 10]
    /\ img.left = Rat(-150, 1) /\ img.top = Rat(-150, 1)

TouchEvents == {"touchstart", "touchmove", "touchend"}

Odd(n) == n % 2 = 1

LastFade == IF fadeLog = <<>> THEN "none" ELSE fadeLog[Len(fadeLog)]

\* C2: in toggle mode, after the n-th click on the source the binding is active
\* (clicked, last fade requested a fade-in, tracker attached) when n is odd and
\* inactive (not clicked, last fade requested a fade-out, tracker detached) when n
\* is even
C2_ToggleAlternates ==
    (settings.on = "toggle" /\ nClicks > 0) =>
        IF Odd(nClicks)
        THEN clicked /\ LastFade = 1 /\ docMove
        ELSE ~clicked /\ LastFade = 0 /\ ~docMove

\* C2 witness: the third click has re-activated the binding
C2_Witness ==
    /\ settings.on = "toggle" /\ nClicks = 3 /\ ev.name = "click"
    /\ clicked /\ docMove /\ LastFade = 1

\* C3: in click mode a click on the source while inactive calls start, sets
\* clicked, attaches the tracker and one one-shot document click handler, and the
\* binding is still armed when that click has finished propagating; a click on the
\* source while armed reaches the document, whose one-shot handler calls stop once,
\* clears clicked and detaches the tracker; no click both starts and stops
C3_ClickArmsThenDisarms ==
    [][(settings.on = "click" /\ ev'.name = "click") =>
          /\ ~clicked => /\ ev'.calls = <<"start">>
                         /\ clicked' /\ docMove' /\ docClick' = 1
          /\ clicked => /\ ev'.calls = <<"documentClick", "stop">>
                        /\ ~clicked' /\ ~docMove' /\ docClick' = 0
          /\ ~(Has(ev'.calls, "start") /\ Has(ev'.calls, "stop"))]_vars

\* C3 witness: a second click on the source has disarmed the binding
C3_Witness ==
    /\ settings.on = "click" /\ ev.name = "click" /\ nClicks = 2
    /\ ev.calls = <<"documentClick", "stop">> /\ ~clicked /\ ~docMove

\* C4: in mouseover mode, once every fade has finished, the overlay is displayed at
\* opacity 1 if the last of the enter / leave events was an enter and hidden at
\* opacity 0 if it was a leave
C4_LastHoverWins ==
    (settings.on = "mouseover" /\ ~settings.touch /\ fades = <<>>) =>
        /\ lastHover = "enter" => img.display # "none" /\ Opacity = 1
        /\ lastHover = "leave" => img.display = "none" /\ Opacity = 0

\* C5: in grab mode a press of the primary button calls start, attaches the tracker
\* and leaves one more mouseup handler pending; the tracker stays attached until
\* the next mouseup, which calls stop and detaches it; a press of another button
\* calls nothing and attaches nothing
C5_GrabTracksUntilRelease ==
    [][settings.on = "grab" =>
          /\ (ev'.name = "mousedown" /\ ev'.button = 0) =>
                /\ ev'.calls = <<"start">>
                /\ docMove' /\ docMouseup' = docMouseup + 1
          /\ (ev'.name = "mousedown" /\ ev'.button # 0) =>
                /\ ev'.calls = <<>>
                /\ UNCHANGED <<docMove, docMouseup, docClick, srcListeners, fades>>
          /\ (docMove /\ ev'.name # "mouseup") => docMove'
          /\ ev'.name = "mouseup" =>
                /\ Has(ev'.calls, "stop") /\ ~Has(ev'.calls, "start")
                /\ ~docMove' /\ docMouseup' = 0]_vars

\* C5 witness: the release after a primary press
C5_Witness ==
    /\ settings.on = "grab" /\ ev.name = "mouseup"
    /\ ev.calls = <<"stop">> /\ ~docMove /\ docMouseup = 0

\* C6: with touch enabled in mouseover or grab mode, a touchstart flips touched and
\* calls start when it was false and stop when it was true; a touchend while
\* touched calls stop, and touched is false after every touchend; a touchmove
\* repositions the overlay only while touched
C6_TouchFallback ==
    [][(settings.touch /\ settings.on \in {"mouseover", "grab"}) =>
          /\ ev'.name = "touchstart" =>
                /\ touched' = ~touched
                /\ ev'.calls = IF touched THEN <<"stop">> ELSE <<"start">>
          /\ ev'.name = "touchend" =>
                /\ ~touched'
                /\ ev'.calls = IF touched THEN <<"stop">> ELSE <<>>
          /\ ev'.name = "touchmove" =>
                /\ ev'.calls = IF touched THEN <<"move">> ELSE <<>>
                /\ ~touched => img' = img]_vars

\* C6 witness: a touchmove that panned the overlay while touched
C6_Witness ==
    /\ settings.on = "grab" /\ settings.touch /\ touched
    /\ ev.name = "touchmove" /\ ev.calls = <<"move">> /\ img.left = Rat(0, 1)

\* C7 as stated: in click or toggle mode no touch event calls start or stop,
\* changes touched or clicked, or repositions the overlay
C7_TouchFullySuppressed ==
    [][(settings.on \in {"click", "toggle"} /\ ev'.name \in TouchEvents) =>
          /\ ev'.calls = <<>>
          /\ UNCHANGED <<touched, clicked, img>>]_vars

\* C7 as amended: in click or toggle mode no touch event calls start or stop or
\* changes touched or clicked; a touchmove repositions the overlay exactly while
\* clicked is true, and no other touch event repositions it
C7_TouchSuppressedButMove ==
    [][(settings.on \in {"click", "toggle"} /\ ev'.name \in TouchEvents) =>
          /\ ~Has(ev'.calls, "start") /\ ~Has(ev'.calls, "stop")
          /\ UNCHANGED <<touched, clicked, fades, fadeLog>>
          /\ ~touched
          /\ ev'.calls = IF ev'.name = "touchmove" /\ clicked
                         THEN <<"move">> ELSE <<>>
          /\ ~(ev'.name = "touchmove" /\ clicked) => img' = img]_vars

\* C7 witness: a touchmove in click mode that panned the overlay while clicked
C7_Witness ==
    /\ settings.on = "click" /\ clicked /\ ~touched
    /\ ev.name = "touchmove" /\ ev.calls = <<"move">> /\ img.left = Rat(0, 1)

\* C8: after load, a teardown leaves the target's inline position and overflow as
\* they were before setup
C8_DestroyRestoresStyle ==
    (loadState = "loaded" /\ ev.name = "destroy") =>
        /\ style[Target(settings)].position = origStyle[Target(settings)].position
        /\ style[Target(settings)].overflow = origStyle[Target(settings)].overflow

\* C9: after a teardown no listener of the binding is left on the source or the
\* document and the overlay is not in the target
C9_DestroyDetaches ==
    ev.name = "destroy" =>
        /\ srcListeners = {}
        /\ ~docMove /\ docMouseup = 0 /\ docClick = 0
        /\ ~img.inTarget

\* C10: once both animations have finished, fadeTo(el, d, 1) followed by
\* fadeTo(el, d, 0) leaves the element hidden at opacity 0, and fadeTo(el, d, 0)
\* followed by fadeTo(el, d, 1) leaves it displayed at opacity 1
C10_FadePairsSettle ==
    fades = <<>> =>
        /\ fadeLog = <<1, 0>> => img.display = "none" /\ Opacity = 0
        /\ fadeLog = <<0, 1>> => img.display # "none" /\ Opacity = 1

\* a <= b for rationals
Leq(a, b) == a.n * b.d <= b.n * a.d

\* the source's size as init() is to take it in layout l
SourceWidth(s, l) ==
    IF s.sameTarget THEN OffsetWidth(Target(s), l) ELSE OffsetWidth("source", l)

SourceHeight(s, l) ==
    IF s.sameTarget THEN OffsetHeight(Target(s), l) ELSE OffsetHeight("source", l)

\* C11: every init() stores xRatio = (overlayWidth - targetWidth) / sourceWidth and
\* yRatio = (overlayHeight - targetHeight) / sourceHeight for the layout current at
\* the call, the overlay's size being the natural size times magnify and the
\* source's size the target's when they are one element
C11_InitRatios ==
    Has(ev.calls, "start") =>
        /\ zoom.xRatio = Rat(NaturalSize.width * settings.magnify
                               - OffsetWidth(Target(settings), layout),
                             SourceWidth(settings, layout))
        /\ zoom.yRatio = Rat(NaturalSize.height * settings.magnify
                               - OffsetHeight(Target(settings), layout),
                             SourceHeight(settings, layout))

\* C12: after init(), move(pointer) leaves the overlay between the far edge and 0
\* on both axes for every pointer: at 0 for a pointer left of or above the source,
\* at the far edge for one right of or below it; after a start, with the overlay at
\* least as large as the target, left is in [targetWidth - overlayWidth, 0] and top
\* in [targetHeight - overlayHeight, 0]
C12_PanStaysInBounds ==
    (zoom.inited /\ (Has(ev.calls, "start") \/ Has(ev.calls, "move"))) =>
        LET farLeft == Neg(Times(zoom.sourceWidth, zoom.xRatio))
            farTop == Neg(Times(zoom.sourceHeight, zoom.yRatio))
            large == /\ width(img) >= zoom.targetWidth
                     /\ height(img) >= zoom.targetHeight
        IN /\ large => /\ Leq(farLeft, img.left) /\ Leq(img.left, Rat(0, 1))
                       /\ Leq(farTop, img.top) /\ Leq(img.top, Rat(0, 1))
           /\ ev.ptr.pageX <= zoom.offset.left => img.left = Rat(0, 1)
           /\ ev.ptr.pageY <= zoom.offset.top => img.top = Rat(0, 1)
           /\ ev.ptr.pageX >= zoom.offset.left + zoom.sourceWidth =>
                 img.left = farLeft
           /\ ev.ptr.pageY >= zoom.offset.top + zoom.sourceHeight =>
                 img.top = farTop
           /\ (Has(ev.calls, "start") /\ large) =>
                 /\ Leq(Rat(zoom.targetWidth - width(img), 1), img.left)
                 /\ Leq(Rat(zoom.targetHeight - height(img), 1), img.top)
                 /\ zoom.targetWidth = OffsetWidth(Target(settings), layout)
                 /\ zoom.targetHeight = OffsetHeight(Target(settings), layout)

\* C12 witness: a pointer right of and below the source has pinned the overlay
\* to its far edge
C12_Witness ==
    /\ zoom.inited /\ ev.name = "mousemove" /\ ev.calls = <<"move">>
    /\ ev.ptr = [pageX |-> 200, pageY |-> 150]
    /\ img.left = Neg(Times(zoom.sourceWidth, zoom.xRatio))
    /\ img.left # Rat(0, 1)

AllListeners(s) ==
    (CASE s.on = "grab" -> {"mousedown"}
       [] s.on \in {"click", "toggle"} -> {"click"}
       [] s.on = "mouseover" -> {"mouseover", "mouseleave", "mousemove"}
       [] OTHER -> {})
    \cup (IF s.touch THEN TouchEvents ELSE {})

NoDocumentListener == ~docMove /\ docMouseup = 0 /\ docClick = 0

\* C13: until the overlay image has loaded, and for good when it fails to load,
\* the binding has no listener on the source or the document, the overlay is not
\* in the target, the target's styles are untouched and the post-load callback has
\* not been called: no mouse, click or touch event has any effect
C13_NothingBeforeLoad ==
    loadState # "loaded" =>
        /\ srcListeners = {} /\ NoDocumentListener
        /\ ~img.inTarget
        /\ style = origStyle
        /\ callbacks = <<>>
        /\ fades = <<>> /\ zoom = Unset /\ ~clicked /\ ~touched
        /\ ev.name \in {"bind", "error", "destroy"}

\* C13 witness: the load has failed, with a callback configured
C13_Witness ==
    /\ loadState = "failed" /\ ev.name = "error"
    /\ settings.callback /\ settings.on = "mouseover" /\ settings.touch

\* C14: with no url option and no descendant img with a data-src, currentSrc or
\* src, zoomImage returns with no overlay in the target, no listener and no load
\* started, and it stays so; a url option that is given is the one used
C14_UrlResolution ==
    /\ ( /\ options.url = ""
         /\ \/ ~doc.srcImg.present
            \/ /\ doc.srcImg.dataSrc = ""
               /\ doc.srcImg.currentSrc = ""
               /\ doc.srcImg.src = "" )
       => /\ loadState = "unbound"
          /\ img.src = "" /\ ~img.inTarget
          /\ srcListeners = {} /\ NoDocumentListener /\ ~destroyArmed
          /\ style = origStyle /\ callbacks = <<>>
    /\ options.url # "" =>
          /\ settings.url = options.url
          /\ img.src = options.url
          /\ loadState # "unbound"

\* C14 witness: the source has an img, but it names no url
C14_Witness ==
    /\ loadState = "unbound" /\ options.url = "" /\ doc.srcImg.present
    /\ options.touch /\ options.callback

\* C15 as stated: in a mode that matches no branch, after load no listener at all
\* is on the source or the document and no event calls start, stop or move, also
\* with touch enabled
C15_NoListenerAtAll ==
    (settings.on = "none" /\ loadState = "loaded") =>
        /\ srcListeners = {} /\ NoDocumentListener
        /\ ~Has(ev.calls, "start") /\ ~Has(ev.calls, "stop")
        /\ ~Has(ev.calls, "move")

\* C15 as amended: in a mode that matches no branch, after load no mouse or click
\* listener is on the source or the document; with touch disabled there is no
\* listener at all and no event calls start, stop or move; with touch enabled
\* the three touch listeners are attached and only touch events call them
C15_OnlyTouchListeners ==
    (settings.on = "none" /\ loadState = "loaded") =>
        /\ srcListeners = IF settings.touch THEN TouchEvents ELSE {}
        /\ NoDocumentListener
        /\ (Has(ev.calls, "start") \/ Has(ev.calls, "stop") \/ Has(ev.calls, "move"))
              => settings.touch /\ ev.name \in TouchEvents

\* C15 witness: a touchstart has started the zoom in a mode with no branch
C15_Witness ==
    /\ settings.on = "none" /\ settings.touch /\ loadState = "loaded"
    /\ ev.name = "touchstart" /\ ev.calls = <<"start">> /\ touched

\* C16: a configured post-load callback is not called before the load event and,
\* once the image has loaded, has been called exactly once, with the overlay
\* image, after every mode and touch listener was attached
C16_CallbackOnceAfterWiring ==
    settings.callback =>
        /\ loadState # "loaded" => callbacks = <<>>
        /\ loadState = "loaded" =>
              /\ Len(callbacks) = 1
              /\ callbacks[1].arg = "img"
              /\ callbacks[1].attached = AllListeners(settings)

\* C17: after load, move never executes before init has executed at least once,
\* and a start leaves the measurements of the init it ran before its move
C17_MoveAfterInit ==
    /\ Has(ev.calls, "move") => zoom.inited
    /\ Has(ev.calls, "start") =>
          zoom.inited /\ zoom = init(Cur, settings, layout).zoom

\* C18: in click mode with touch disabled, clicked holds exactly when the
\* document's mousemove tracker is attached and exactly when one one-shot document
\* click handler is pending; never more than one is pending
C18_ClickedIffArmed ==
    (settings.on = "click" /\ ~settings.touch) =>
        /\ clicked <=> docMove
        /\ clicked <=> docClick = 1
        /\ docClick <= 1

\* C18 witness: armed again by the third click, after a click that disarmed
C18_Witness ==
    /\ settings.on = "click" /\ ~settings.touch /\ nClicks = 3
    /\ ev.name = "click" /\ ev.calls = <<"start">>
    /\ clicked /\ docMove /\ docClick = 1

\* C19: in grab mode at most one one-shot mouseup handler is pending at any time,
\* and a mouseup calls stop exactly once
C19_OneMouseupHandler ==
    settings.on = "grab" =>
        /\ docMouseup <= 1
        /\ ev.name = "mouseup" => ev.calls = <<"stop">>

\* C20: in mouseover mode with touch enabled, whenever touched is true the most
\* recent start / stop call is a start (the last fade requested is a fade-in)
C20_TouchedMeansStarted ==
    (settings.on = "mouseover" /\ settings.touch /\ touched) =>
        fadeLog # <<>> /\ LastFade = 1

====
